---- MODULE Spec2Model ----
(***************************************************************************)
(* The engine service: GET /health (main.py) and POST /convert             *)
(* (src/api/currency.py), a currency conversion through a fixed table of   *)
(* rates per USD.                                                          *)
(*                                                                         *)
(* Python floats are IEEE-754 binary64.  The conversion divides and        *)
(* multiplies floats and rounds the product with round(x, 2), so the cent  *)
(* it returns is decided by the binary values, not by the decimal          *)
(* numerals.  The model computes with binary64 values bit for bit: a       *)
(* 53-bit significand held as a natural number in limbs (TLC's integers    *)
(* are 32 bits wide) and a binary exponent.                                *)
(***************************************************************************)
EXTENDS Integers, Sequences, FiniteSets, TLC

(***************************************************************************)
(* Natural numbers of any size: a sequence of limbs, least significant     *)
(* first, base 2^15, with no leading zero limb (zero is << >>).            *)
(***************************************************************************)
BASE == 2^15

RECURSIVE BigNorm(_)
BigNorm(a) ==
    IF a = << >> THEN a
    ELSE IF a[Len(a)] = 0 THEN BigNorm(SubSeq(a, 1, Len(a) - 1))
    ELSE a

RECURSIVE BigOfInt(_)
BigOfInt(n) ==
    IF n = 0 THEN << >> ELSE << n % BASE >> \o BigOfInt(n \div BASE)

RECURSIVE BigToIntFrom(_, _)
BigToIntFrom(a, i) ==
    IF i > Len(a) THEN 0 ELSE a[i] + BASE * BigToIntFrom(a, i + 1)

\* Only for numbers below 2^31.
BigToInt(a) == BigToIntFrom(a, 1)

Limb(a, i) == IF i <= Len(a) THEN a[i] ELSE 0

RECURSIVE BigCmpFrom(_, _, _)
BigCmpFrom(a, b, i) ==
    IF i = 0 THEN 0
    ELSE IF a[i] < b[i] THEN -1
    ELSE IF a[i] > b[i] THEN 1
    ELSE BigCmpFrom(a, b, i - 1)

\* -1, 0 or 1 as a < b, a = b, a > b (both normalised).
BigCmp(a, b) ==
    IF Len(a) < Len(b) THEN -1
    ELSE IF Len(a) > Len(b) THEN 1
    ELSE BigCmpFrom(a, b, Len(a))

RECURSIVE BigAddFrom(_, _, _, _)
BigAddFrom(a, b, i, carry) ==
    IF i > Len(a) /\ i > Len(b)
    THEN (IF carry = 0 THEN << >> ELSE << carry >>)
    ELSE LET s == Limb(a, i) + Limb(b, i) + carry
         IN  << s % BASE >> \o BigAddFrom(a, b, i + 1, s \div BASE)

BigAdd(a, b) == BigAddFrom(a, b, 1, 0)

RECURSIVE BigSubFrom(_, _, _, _)
BigSubFrom(a, b, i, borrow) ==
    IF i > Len(a) THEN << >>
    ELSE LET s == a[i] - Limb(b, i) - borrow
         IN  IF s < 0
             THEN << s + BASE >> \o BigSubFrom(a, b, i + 1, 1)
             ELSE << s >> \o BigSubFrom(a, b, i + 1, 0)

\* a - b, for a >= b.
BigSub(a, b) == BigNorm(BigSubFrom(a, b, 1, 0))

RECURSIVE BigMulSmallFrom(_, _, _, _)
BigMulSmallFrom(a, k, i, carry) ==
    IF i > Len(a)
    THEN (IF carry = 0 THEN << >> ELSE << carry >>)
    ELSE LET s == a[i] * k + carry
         IN  << s % BASE >> \o BigMulSmallFrom(a, k, i + 1, s \div BASE)

\* a * k, for 0 <= k < BASE.
BigMulSmall(a, k) == IF k = 0 THEN << >> ELSE BigMulSmallFrom(a, k, 1, 0)

\* a * BASE^n.
BigShiftLimbs(a, n) ==
    IF a = << >> THEN a ELSE [i \in 1..n |-> 0] \o a

RECURSIVE BigMulFrom(_, _, _)
BigMulFrom(a, b, i) ==
    IF i > Len(b) THEN << >>
    ELSE BigAdd(BigShiftLimbs(BigMulSmall(a, b[i]), i - 1), BigMulFrom(a, b, i + 1))

BigMul(a, b) == BigMulFrom(a, b, 1)

\* a * 2^k.
BigShl(a, k) ==
    BigShiftLimbs(BigMulSmall(a, 2^(k % 15)), k \div 15)

RECURSIVE BigDivSmallFrom(_, _, _, _)
BigDivSmallFrom(a, d, i, r) ==
    IF i = 0 THEN [q |-> << >>, r |-> r]
    ELSE LET cur  == r * BASE + a[i]
             rest == BigDivSmallFrom(a, d, i - 1, cur % d)
         IN  [q |-> rest.q \o << cur \div d >>, r |-> rest.r]

\* Quotient (a bignum) and remainder (an integer) of a by d, for 0 < d < 2^16.
BigDivSmall(a, d) ==
    LET res == BigDivSmallFrom(a, d, Len(a), 0)
    IN  [q |-> BigNorm(res.q), r |-> res.r]

\* floor(a / 2^k).
BigShr(a, k) ==
    LET n == k \div 15
    IN  IF n >= Len(a) THEN << >>
        ELSE BigDivSmall(SubSeq(a, n + 1, Len(a)), 2^(k % 15)).q

RECURSIVE IntBitLen(_)
IntBitLen(n) == IF n = 0 THEN 0 ELSE 1 + IntBitLen(n \div 2)

\* Number of bits of a: 0 for zero, else floor(log2 a) + 1.
BigBitLen(a) ==
    IF a = << >> THEN 0
    ELSE 15 * (Len(a) - 1) + IntBitLen(a[Len(a)])

\* Bit i of a (bit 0 is the least significant).
BigBit(a, i) == (Limb(a, i \div 15 + 1) \div 2^(i % 15)) % 2

\* Whether a mod 2^k is not zero.
BigLowBits(a, k) ==
    \/ \E i \in 1..(k \div 15) : Limb(a, i) # 0
    \/ Limb(a, k \div 15 + 1) % 2^(k % 15) # 0

BigIsOdd(a) == a # << >> /\ a[1] % 2 = 1

\* The largest digit t <= guess with t * d <= r.
RECURSIVE BigDigit(_, _, _)
BigDigit(r, d, guess) ==
    IF BigCmp(BigMulSmall(d, guess), r) <= 0 THEN guess
    ELSE BigDigit(r, d, guess - 1)

\* Long division of a by d, limb i downwards, r the running remainder
\* (r < d).  d is normalised: its top limb is at least BASE / 2, so the
\* digit guessed from the top limbs is at most 2 too large.
RECURSIVE BigDivFrom(_, _, _, _)
BigDivFrom(a, d, i, r) ==
    IF i = 0 THEN [q |-> << >>, r |-> r]
    ELSE LET cur   == BigNorm(<< a[i] >> \o r)
             n     == Len(d)
             top   == Limb(cur, n + 1) * BASE + Limb(cur, n)
             guess == IF top \div d[n] > BASE - 1 THEN BASE - 1 ELSE top \div d[n]
             t     == BigDigit(cur, d, guess)
             rest  == BigDivFrom(a, d, i - 1, BigSub(cur, BigMulSmall(d, t)))
         IN  [q |-> rest.q \o << t >>, r |-> rest.r]

\* Quotient of a by d (d # 0) and whether the division left a remainder.
BigDiv(a, d) ==
    LET sh  == (15 - (BigBitLen(d) % 15)) % 15
        res == BigDivFrom(BigShl(a, sh), BigShl(d, sh), Len(BigShl(a, sh)), << >>)
    IN  [q |-> BigNorm(res.q), inexact |-> res.r # << >>]

(***************************************************************************)
(* A Python float: IEEE-754 binary64, value (-1)^neg * m * 2^e with        *)
(* 2^52 <= m < 2^53, or zero (m = << >>, e = 0).  Every operation gives    *)
(* the double nearest to the exact result, ties to the even significand.   *)
(* Subnormals, infinities and NaN lie outside the amounts modelled.        *)
(***************************************************************************)
FZero == [neg |-> FALSE, m |-> << >>, e |-> 0]

\* q * 2^e rounded to 53 significant bits; q has at least 54 bits, and
\* sticky says that a nonzero fraction below q was already dropped.
RoundTo53(q, sticky, e) ==
    LET k    == BigBitLen(q) - 53
        m0   == BigShr(q, k)
        half == BigBit(q, k - 1) = 1
        low  == sticky \/ BigLowBits(q, k - 1)
        m1   == IF half /\ (low \/ BigIsOdd(m0)) THEN BigAdd(m0, << 1 >>) ELSE m0
    IN  IF BigBitLen(m1) = 54
        THEN [m |-> BigShr(m1, 1), e |-> e + k + 1]
        ELSE [m |-> m1, e |-> e + k]

\* The double nearest to (n / d) * 2^e, for bignums n > 0 and d > 0.
RoundRat(n, d, e, neg) ==
    LET want == 55 + BigBitLen(d) - BigBitLen(n)
        s    == IF want > 0 THEN want ELSE 0
        res  == BigDiv(BigShl(n, s), d)
        r    == RoundTo53(res.q, res.inexact, e - s)
    IN  [neg |-> neg, m |-> r.m, e |-> r.e]

\* The float a decimal numeral n/d denotes: a literal of the source, or a
\* JSON number parsed into a float field.
FromDecimal(n, d) ==
    IF n = 0 THEN FZero
    ELSE RoundRat(BigOfInt(IF n < 0 THEN -n ELSE n), BigOfInt(d), 0, n < 0)

\* x < 0
FNegative(x) == x.neg /\ x.m # << >>

\* x / y, for y # 0
FDiv(x, y) ==
    IF x.m = << >> THEN FZero
    ELSE RoundRat(x.m, y.m, x.e - y.e, x.neg # y.neg)

\* x * y
FMul(x, y) ==
    IF x.m = << >> \/ y.m = << >> THEN FZero
    ELSE LET r == RoundTo53(BigMul(x.m, y.m), FALSE, x.e + y.e)
         IN  [neg |-> x.neg # y.neg, m |-> r.m, e |-> r.e]

\* The integer nearest to |x| * 10^ndigits, ties to even, decided on the
\* exact binary value of x (what dtoa does for round(x, ndigits)).
DecimalUnits(x, ndigits) ==
    LET p  == BigMul(x.m, BigOfInt(10^ndigits))
        k  == -x.e
        c0 == BigShr(p, k)
        up == BigBit(p, k - 1) = 1 /\ (BigLowBits(p, k - 1) \/ BigIsOdd(c0))
    IN  IF x.e >= 0 THEN BigShl(p, x.e)
        ELSE IF up THEN BigAdd(c0, << 1 >>) ELSE c0

\* Python's round(x, ndigits) for a small ndigits >= 0: x is rounded
\* correctly to ndigits decimals and the decimal numeral is read back as a
\* float.
PyRound(x, ndigits) ==
    LET c == DecimalUnits(x, ndigits)
    IN  IF c = << >> THEN FZero
        ELSE RoundRat(c, BigOfInt(10^ndigits), 0, x.neg)

(***************************************************************************)
(* Strings are sequences of one-character strings, so that str.upper() and *)
(* the text of an error detail are computed, not assumed.                  *)
(***************************************************************************)
LowerCase == << "a", "b", "c", "d", "e", "f", "g", "h", "i", "j", "k", "l", "m", "n", "o", "p", "q", "r", "s", "t", "u", "v", "w", "x", "y", "z" >>

UpperCase == << "A", "B", "C", "D", "E", "F", "G", "H", "I", "J", "K", "L", "M", "N", "O", "P", "Q", "R", "S", "T", "U", "V", "W", "X", "Y", "Z" >>

UpperChar(ch) ==
    IF \E i \in 1..Len(LowerCase) : LowerCase[i] = ch
    THEN UpperCase[CHOOSE i \in 1..Len(LowerCase) : LowerCase[i] = ch]
    ELSE ch

\* str.upper() left out: the string as the caller wrote it.
UpperOmitted(s) == s

\* str.upper()
RECURSIVE Upper(_)
Upper(s) == IF s = << >> THEN << >> ELSE << UpperChar(Head(s)) >> \o Upper(Tail(s))

USD == << "U", "S", "D" >>
EUR == << "E", "U", "R" >>
GBP == << "G", "B", "P" >>
JPY == << "J", "P", "Y" >>
CAD == << "C", "A", "D" >>
AUD == << "A", "U", "D" >>
CHF == << "C", "H", "F" >>
CNY == << "C", "N", "Y" >>

\* class Currency(str, Enum): the values of its members.
Currency == {USD, EUR, GBP, JPY, CAD, AUD, CHF, CNY}

\* The module-level dict EXCHANGE_RATES as the import leaves it; each
\* literal is read as a float.
InitialRates ==
    (USD :> FromDecimal(10, 10)) @@ (EUR :> FromDecimal(85, 100)) @@
    (GBP :> FromDecimal(73, 100)) @@ (JPY :> FromDecimal(1100, 10)) @@
    (CAD :> FromDecimal(125, 100)) @@ (AUD :> FromDecimal(135, 100)) @@
    (CHF :> FromDecimal(92, 100)) @@ (CNY :> FromDecimal(645, 100))

AmountCannotBeNegative == << "A", "m", "o", "u", "n", "t", " ", "c", "a", "n", "n", "o", "t", " ", "b", "e", " ", "n", "e", "g", "a", "t", "i", "v", "e" >>

InvalidCurrencyCode == << "I", "n", "v", "a", "l", "i", "d", " ", "c", "u", "r", "r", "e", "n", "c", "y", " ", "c", "o", "d", "e" >>

\* convert_currency rounding to one decimal instead of two.
convert_currency_round1(amount, from_currency, to_currency, rates) ==
    IF FNegative(amount)
    THEN [ok |-> FALSE, msg |-> << "A", "m", "o", "u", "n", "t", " ", "c", "a", "n", "n", "o", "t", " ", "b", "e", " ", "n", "e", "g", "a", "t", "i", "v", "e" >>]
    ELSE IF from_currency = to_currency
    THEN [ok |-> TRUE, value |-> amount]
    ELSE [ok |-> TRUE,
          value |-> PyRound(FMul(FDiv(amount, rates[from_currency]),
                                 rates[to_currency]), 1)]

\* convert_currency without the same-currency short-circuit.
convert_currency_always_rounds(amount, from_currency, to_currency, rates) ==
    IF FNegative(amount)
    THEN [ok |-> FALSE, msg |-> << "A", "m", "o", "u", "n", "t", " ", "c", "a", "n", "n", "o", "t", " ", "b", "e", " ", "n", "e", "g", "a", "t", "i", "v", "e" >>]
    ELSE [ok |-> TRUE,
          value |-> PyRound(FMul(FDiv(amount, rates[from_currency]),
                                 rates[to_currency]), 2)]

\* convert_currency rounding half a cent upwards instead of rounding the
\* binary value.
convert_currency_half_up(amount, from_currency, to_currency, rates) ==
    IF FNegative(amount)
    THEN [ok |-> FALSE, msg |-> << "A", "m", "o", "u", "n", "t", " ", "c", "a", "n", "n", "o", "t", " ", "b", "e", " ", "n", "e", "g", "a", "t", "i", "v", "e" >>]
    ELSE IF from_currency = to_currency
    THEN [ok |-> TRUE, value |-> amount]
    ELSE LET x == FMul(FDiv(amount, rates[from_currency]), rates[to_currency])
             t == BigToInt(DecimalUnits(x, 3))
         IN  [ok |-> TRUE, value |-> FromDecimal((t + 5) \div 10, 100)]

\* convert_currency: the converted amount, or the ValueError it raises.
convert_currency(amount, from_currency, to_currency, rates) ==
    IF FNegative(amount)
    THEN [ok |-> FALSE, msg |-> AmountCannotBeNegative]
    ELSE IF from_currency = to_currency
    THEN [ok |-> TRUE, value |-> amount]
    ELSE LET usd_amount       == FDiv(amount, rates[from_currency])
             converted_amount == FMul(usd_amount, rates[to_currency])
         IN  [ok |-> TRUE, value |-> PyRound(converted_amount, 2)]

\* convert_endpoint reporting the enum's own error text, which quotes the
\* value that is no Currency.
convert_endpoint_quotes_code(payload, rates) ==
    LET from_curr == Upper(payload.from_currency)
        to_curr   == Upper(payload.to_currency)
        bad       == IF from_curr \notin Currency THEN from_curr ELSE to_curr
    IN  IF from_curr \notin Currency \/ to_curr \notin Currency
        THEN [status_code |-> 400,
              body |-> [detail |-> << "'" >> \o bad \o << "'", " ", "i", "s", " ", "n", "o", "t", " ", "a", " ", "v", "a", "l", "i", "d", " ", "C", "u", "r", "r", "e", "n", "c", "y" >>]]
        ELSE [status_code |-> 200,
              body |-> [converted_amount |->
                            convert_currency(payload.amount, from_curr, to_curr, rates).value,
                        from_currency    |-> from_curr,
                        to_currency      |-> to_curr,
                        exchange_rate    |->
                            PyRound(FDiv(rates[to_curr], rates[from_curr]), 4)]]

\* convert_endpoint dividing the rates the wrong way round.
convert_endpoint_inverse_rate(payload, rates) ==
    LET from_curr == Upper(payload.from_currency)
        to_curr   == Upper(payload.to_currency)
    IN  IF from_curr \notin Currency \/ to_curr \notin Currency
        THEN [status_code |-> 400, body |-> [detail |-> << "I", "n", "v", "a", "l", "i", "d", " ", "c", "u", "r", "r", "e", "n", "c", "y", " ", "c", "o", "d", "e" >>]]
        ELSE [status_code |-> 200,
              body |-> [converted_amount |->
                            convert_currency(payload.amount, from_curr, to_curr, rates).value,
                        from_currency    |-> from_curr,
                        to_currency      |-> to_curr,
                        exchange_rate    |->
                            PyRound(FDiv(rates[from_curr], rates[to_curr]), 4)]]

\* convert_endpoint: the response to a payload that passed validation.
convert_endpoint(payload, rates) ==
    LET from_curr == Upper(payload.from_currency)
        to_curr   == Upper(payload.to_currency)
    IN  IF from_curr \notin Currency \/ to_curr \notin Currency
        THEN [status_code |-> 400, body |-> [detail |-> InvalidCurrencyCode]]
        ELSE LET res == convert_currency(payload.amount, from_curr, to_curr, rates)
             IN  IF ~res.ok
                 THEN [status_code |-> 400, body |-> [detail |-> res.msg]]
                 ELSE [status_code |-> 200,
                       body |-> [converted_amount |-> res.value,
                                 from_currency    |-> from_curr,
                                 to_currency      |-> to_curr,
                                 exchange_rate    |->
                                     PyRound(FDiv(rates[to_curr], rates[from_curr]), 4)]]

\* A JSON number on the wire: the decimal numeral n / 10^digits.
Dec(n, digits) == [n |-> n, digits |-> digits]

\* The float a JSON number is parsed into.
ParseNumber(a) == FromDecimal(a.n, 10^a.digits)

\* ConvertRequest: the body parsed into the model, or the validation error
\* of amount's constraint ge=0, which the framework answers with 422
\* before the endpoint is called.
ConvertRequest(body) ==
    LET amount == ParseNumber(body.amount)
    IN  IF FNegative(amount)
        THEN [ok |-> FALSE,
              response |-> [status_code |-> 422,
                            body |-> [detail |-> << [loc |-> << "body", "amount" >>] >>]]]
        ELSE [ok |-> TRUE,
              payload |-> [amount        |-> amount,
                           from_currency |-> body.from_currency,
                           to_currency   |-> body.to_currency]]

\* health_check without the timestamp.
health_check_no_timestamp(now) ==
    [status_code |-> 200,
     body |-> [status |-> "healthy", service |-> "engine-service"]]

\* health_check: the response, now being the clock's reading.
health_check(now) ==
    [status_code |-> 200,
     body |-> [status |-> "healthy", service |-> "engine-service", timestamp |-> now]]

\* The JSON number a float is written as: the shortest decimal numeral
\* that reads back as the same float (floats of up to MaxDigits decimals).
MaxDigits == 4

ReadsBack(x, k) == FromDecimal(BigToInt(DecimalUnits(x, k)), 10^k) = x

JsonNumber(x) ==
    LET k == CHOOSE k \in 0..MaxDigits :
                 /\ ReadsBack(x, k)
                 /\ \A j \in 0..(k - 1) : ~ReadsBack(x, j)
    IN  Dec(BigToInt(DecimalUnits(x, k)), k)

(***************************************************************************)
(* The service and its callers.  Each caller sends one request at a time:  *)
(* the framework parses and validates the body, the endpoint answers, the  *)
(* caller takes the response.  Callers interleave freely.                  *)
(***************************************************************************)
NumClients == 2

MaxClock == 1

MaxCents == 3

Clients == 1..NumClients

\* The codes callers write, supported or not, in any letter case.
RawCodes ==
    Currency \cup {<< "u", "s", "d" >>, << "E", "u", "r" >>,
                   << "X", "X", "X" >>, << "x", "x", "x" >>}

\* The amounts callers send: a negative one, zero, a few cents, and the
\* amounts of the documented scenarios.
Amounts ==
    {Dec(k, 2) : k \in (-1)..MaxCents}
        \cup {Dec(5, 1), Dec(1, 0), Dec(10999, 3), Dec(50, 0), Dec(100, 0)}

ConvertBody(a, f, t) ==
    [kind |-> "convert", amount |-> a, from_currency |-> f, to_currency |-> t]

WideRequests == {ConvertBody(a, f, t) : a \in Amounts, f \in RawCodes, t \in RawCodes}

\* The requests of concurrent callers: the same conversion in two letter
\* cases, a same-currency conversion in two letter cases, and the two
\* kinds of invalid request.
NarrowRequests ==
    {ConvertBody(Dec(100, 0), USD, EUR),
     ConvertBody(Dec(100, 0), << "u", "s", "d" >>, << "E", "u", "r" >>),
     ConvertBody(Dec(2, 2), USD, USD),
     ConvertBody(Dec(2, 2), << "u", "s", "d" >>, USD),
     ConvertBody(Dec(-1, 0), USD, EUR),
     ConvertBody(Dec(100, 0), << "X", "X", "X" >>, USD)}

HealthRequest == [kind |-> "health"]

None == [kind |-> "none"]

VARIABLES
    EXCHANGE_RATES,  \* the module-level dict of currency.py
    pc,              \* per caller: "idle", "sent", "validated" or "done"
    req,             \* per caller: the request on the wire
    payload,         \* per caller: the validated ConvertRequest
    resp,            \* per caller: the response
    first            \* per caller: the request and response of the first hop
                     \* of a round trip

vars == << EXCHANGE_RATES, pc, req, payload, resp, first >>

Init ==
    /\ EXCHANGE_RATES = InitialRates
    /\ pc = [c \in Clients |-> "idle"]
    /\ req = [c \in Clients |-> None]
    /\ payload = [c \in Clients |-> None]
    /\ resp = [c \in Clients |-> None]
    /\ first = [c \in Clients |-> None]

\* A caller posts a conversion request.
SendConvert(c, requests) ==
    /\ pc[c] = "idle"
    /\ \E r \in requests : req' = [req EXCEPT ![c] = r]
    /\ pc' = [pc EXCEPT ![c] = "sent"]
    /\ UNCHANGED << EXCHANGE_RATES, payload, resp, first >>

\* A caller gets /health.
SendHealth(c) ==
    /\ pc[c] = "idle"
    /\ req' = [req EXCEPT ![c] = HealthRequest]
    /\ pc' = [pc EXCEPT ![c] = "sent"]
    /\ UNCHANGED << EXCHANGE_RATES, payload, resp, first >>

\* The framework builds the ConvertRequest; a body that fails validation
\* is answered at once and never reaches the endpoint.
Validate(c) ==
    /\ pc[c] = "sent"
    /\ req[c].kind = "convert"
    /\ LET v == ConvertRequest(req[c])
       IN  IF v.ok
           THEN /\ payload' = [payload EXCEPT ![c] = v.payload]
                /\ pc' = [pc EXCEPT ![c] = "validated"]
                /\ resp' = resp
           ELSE /\ resp' = [resp EXCEPT ![c] = v.response]
                /\ pc' = [pc EXCEPT ![c] = "done"]
                /\ payload' = payload
    /\ UNCHANGED << EXCHANGE_RATES, req, first >>

\* convert_endpoint storing the cross rate it computed in the shared table.
ConvertWritesTable(c) ==
    /\ pc[c] = "validated"
    /\ resp' = [resp EXCEPT ![c] = convert_endpoint(payload[c], EXCHANGE_RATES)]
    /\ pc' = [pc EXCEPT ![c] = "done"]
    /\ EXCHANGE_RATES' =
           IF resp'[c].status_code = 200
           THEN [EXCHANGE_RATES EXCEPT ![resp'[c].body.from_currency] =
                                            resp'[c].body.exchange_rate]
           ELSE EXCHANGE_RATES
    /\ UNCHANGED << req, payload, first >>

\* convert_endpoint reading the payload from one slot shared by all
\* requests: it answers the request validated by the lowest caller.
ConvertSharedPayload(c) ==
    /\ pc[c] = "validated"
    /\ LET d == CHOOSE d \in Clients :
                    /\ pc[d] = "validated"
                    /\ \A other \in Clients : pc[other] = "validated" => d <= other
       IN  resp' = [resp EXCEPT ![c] = convert_endpoint(payload[d], EXCHANGE_RATES)]
    /\ pc' = [pc EXCEPT ![c] = "done"]
    /\ UNCHANGED << EXCHANGE_RATES, req, payload, first >>

\* convert_endpoint runs.
Convert(c) ==
    /\ pc[c] = "validated"
    /\ resp' = [resp EXCEPT ![c] = convert_endpoint(payload[c], EXCHANGE_RATES)]
    /\ pc' = [pc EXCEPT ![c] = "done"]
    /\ UNCHANGED << EXCHANGE_RATES, req, payload, first >>

\* health_check runs.
Health(c) ==
    /\ pc[c] = "sent"
    /\ req[c].kind = "health"
    /\ \E now \in 0..MaxClock : resp' = [resp EXCEPT ![c] = health_check(now)]
    /\ pc' = [pc EXCEPT ![c] = "done"]
    /\ UNCHANGED << EXCHANGE_RATES, req, payload, first >>

\* The caller takes the response.
Receive(c) ==
    /\ pc[c] = "done"
    /\ pc' = [pc EXCEPT ![c] = "idle"]
    /\ req' = [req EXCEPT ![c] = None]
    /\ payload' = [payload EXCEPT ![c] = None]
    /\ resp' = [resp EXCEPT ![c] = None]
    /\ first' = [first EXCEPT ![c] = None]
    /\ UNCHANGED EXCHANGE_RATES

\* The caller sends a converted amount back the other way: the second hop
\* of a round trip, with the codes and the number of the response.
Return(c) ==
    /\ pc[c] = "done"
    /\ req[c].kind = "convert"
    /\ resp[c].status_code = 200
    /\ first[c] = None
    /\ first' = [first EXCEPT ![c] = [req |-> req[c], resp |-> resp[c]]]
    /\ req' = [req EXCEPT ![c] =
                   ConvertBody(JsonNumber(resp[c].body.converted_amount),
                               resp[c].body.to_currency,
                               resp[c].body.from_currency)]
    /\ payload' = [payload EXCEPT ![c] = None]
    /\ resp' = [resp EXCEPT ![c] = None]
    /\ pc' = [pc EXCEPT ![c] = "sent"]
    /\ UNCHANGED EXCHANGE_RATES

\* Concurrent callers, conversions and health checks interleaved.
Next ==
    \E c \in Clients :
        \/ SendConvert(c, NarrowRequests)
        \/ SendHealth(c)
        \/ Validate(c)
        \/ Convert(c)
        \/ Health(c)
        \/ Receive(c)

Spec == Init /\ [][Next]_vars

\* One caller, every amount and every pair of codes, there and back.
NextWide ==
    \/ SendConvert(1, WideRequests)
    \/ Validate(1)
    \/ Convert(1)
    \/ Return(1)
    \/ Receive(1)

SpecWide == Init /\ [][NextWide]_vars

(***************************************************************************)
(* What the specification document says, stated over the model.  The rate  *)
(* table, the codes and the texts are written out here as the document     *)
(* gives them, in integers, apart from the model's floats.                 *)
(***************************************************************************)

\* The document's rate table, in hundredths of a unit per USD.
DocRate ==
    (USD :> 100) @@ (EUR :> 85) @@ (GBP :> 73) @@ (JPY :> 11000) @@
    (CAD :> 125) @@ (AUD :> 135) @@ (CHF :> 92) @@ (CNY :> 645)

DocCodes == {USD, EUR, GBP, JPY, CAD, AUD, CHF, CNY}

Abs(i) == IF i < 0 THEN -i ELSE i

SameLetter(x, y) ==
    \/ x = y
    \/ \E i \in 1..Len(LowerCase) : {x, y} = {LowerCase[i], UpperCase[i]}

\* Two strings that differ at most in the case of their letters.
SameLetters(s, t) ==
    /\ Len(s) = Len(t)
    /\ \A i \in 1..Len(s) : SameLetter(s[i], t[i])

Supported(s) == \E code \in DocCodes : SameLetters(s, code)

\* The supported code a string spells in some letter case.
CodeOf(s) == CHOOSE code \in DocCodes : SameLetters(s, code)

\* Whether a text names a code, in any letter case.
Names(s, code) ==
    \E i \in 1..(Len(s) - Len(code) + 1) :
        SameLetters(SubSeq(s, i, i + Len(code) - 1), code)

IsConvert(c) == req[c].kind = "convert"

Answered(c) == pc[c] = "done" /\ IsConvert(c)

Succeeded(c) == Answered(c) /\ resp[c].status_code = 200

Rejected(c) == Answered(c) /\ resp[c].status_code \in {400, 422}

BothSupported(c) ==
    Supported(req[c].from_currency) /\ Supported(req[c].to_currency)

\* 100 * amount * rate(t) / rate(f) as a quotient, a remainder and the
\* divisor, for an amount of at most three decimals.
ExactCents(a, f, t) ==
    LET num == IF a.digits <= 2 THEN a.n * DocRate[t] * 10^(2 - a.digits)
               ELSE a.n * DocRate[t]
        den == IF a.digits <= 2 THEN DocRate[f] ELSE DocRate[f] * 10^(a.digits - 2)
    IN  [q |-> num \div den, r |-> num % den, den |-> den]

\* 10^4 * rate(t) / rate(f), likewise.
ExactRate(f, t) ==
    [q |-> (DocRate[t] * 10^4) \div DocRate[f],
     r |-> (DocRate[t] * 10^4) % DocRate[f],
     den |-> DocRate[f]]

\* e rounded to the nearest integer, ties to even.
HalfEven(e) ==
    IF 2 * e.r > e.den \/ (2 * e.r = e.den /\ e.q % 2 = 1) THEN e.q + 1 ELSE e.q

\* Whether the integer i is a nearest integer to e.
Nearest(i, e) ==
    \/ i = e.q /\ 2 * e.r <= e.den
    \/ i = e.q + 1 /\ 2 * e.r >= e.den

\* The float x read in hundredths, thousandths, ten-thousandths.
Cents(x) == BigToInt(DecimalUnits(x, 2))

Thousandths(x) == BigToInt(DecimalUnits(x, 3))

TenThousandths(x) == BigToInt(DecimalUnits(x, 4))

\* An amount on the wire, in thousandths.
WireThousandths(a) == a.n * 10^(3 - a.digits)

\* A first-hop conversion between the given codes as written.
Converted(c, a, f, t) ==
    /\ Succeeded(c)
    /\ first[c] = None
    /\ req[c].amount = a
    /\ req[c].from_currency = f
    /\ req[c].to_currency = t

----------------------------------------------------------------------------
\* C1: a conversion request with a negative amount and supported codes,
\* and one with a non-negative amount and an unsupported code, are both
\* answered with status 400.
C1_BothInvalidKindsGet400 ==
    \A c \in Clients :
        (/\ Answered(c)
         /\ \/ req[c].amount.n < 0 /\ BothSupported(c)
            \/ req[c].amount.n >= 0 /\ ~BothSupported(c))
        => resp[c].status_code = 400

----------------------------------------------------------------------------
\* C2 as written: a request with an unsupported code (and a non-negative
\* amount) is refused with an error that names each code that is
\* unsupported.
C2_ErrorNamesOffendingCode ==
    \A c \in Clients :
        (Answered(c) /\ req[c].amount.n >= 0 /\ ~BothSupported(c)) =>
            /\ resp[c].status_code = 400
            /\ \A x \in {req[c].from_currency, req[c].to_currency} :
                   ~Supported(x) => Names(resp[c].body.detail, x)

\* C2 as amended: a request with an unsupported code (and a non-negative
\* amount) is refused with status 400 and the fixed detail "Invalid
\* currency code", whichever code is unsupported; the detail names no code.
C2_FixedDetail ==
    \A c \in Clients :
        (Answered(c) /\ req[c].amount.n >= 0 /\ ~BothSupported(c)) =>
            /\ resp[c].status_code = 400
            /\ resp[c].body.detail = << "I", "n", "v", "a", "l", "i", "d", " ", "c", "u", "r", "r", "e", "n", "c", "y", " ", "c", "o", "d", "e" >>

C2_Witness ==
    \E c \in Clients :
        /\ Answered(c)
        /\ req[c].amount.n >= 0
        /\ Supported(req[c].from_currency)
        /\ ~Supported(req[c].to_currency)
        /\ resp[c].status_code = 400

----------------------------------------------------------------------------
\* C3 as written: an amount converted from a to b and back differs from
\* the amount sent by at most 0.02.
C3_RoundTripWithinTwoCents ==
    \A c \in Clients :
        (Succeeded(c) /\ first[c] # None) =>
            Abs(Thousandths(resp[c].body.converted_amount)
                    - WireThousandths(first[c].req.amount)) <= 20

\* C3 as amended: the second hop succeeds, and the amount that comes back
\* differs from the amount sent by at most 0.005 * (1 + rate(a) / rate(b)):
\* each hop lands on a nearest cent, and the first hop's half cent of b is
\* worth rate(a) / rate(b) half cents of a.
C3_RoundTripWithinScaledHalfCents ==
    \A c \in Clients :
        (Answered(c) /\ first[c] # None) =>
            /\ resp[c].status_code = 200
            /\ LET a == CodeOf(first[c].req.from_currency)
                   b == CodeOf(first[c].req.to_currency)
               IN  Abs(Thousandths(resp[c].body.converted_amount)
                           - WireThousandths(first[c].req.amount)) * DocRate[b]
                       <= 5 * (DocRate[a] + DocRate[b])

\* 1 JPY comes back as 1.10 JPY.
C3_Witness ==
    \E c \in Clients :
        /\ Succeeded(c)
        /\ first[c] # None
        /\ first[c].req.amount = Dec(1, 0)
        /\ first[c].req.from_currency = JPY
        /\ first[c].req.to_currency = USD
        /\ Thousandths(resp[c].body.converted_amount) = 1100

----------------------------------------------------------------------------
\* C4: a conversion of a non-negative amount from a supported code to the
\* same code succeeds and returns the amount itself, not rounded to two
\* decimals (10.999 stays 10.999, 50 stays 50), with exchange rate 1.0.
C4_SameCurrencyIdentity ==
    \A c \in Clients :
        (/\ Answered(c)
         /\ req[c].amount.n >= 0
         /\ BothSupported(c)
         /\ CodeOf(req[c].from_currency) = CodeOf(req[c].to_currency)) =>
            /\ resp[c].status_code = 200
            /\ resp[c].body.converted_amount = ParseNumber(req[c].amount)
            /\ Thousandths(resp[c].body.converted_amount)
                   = WireThousandths(req[c].amount)
            /\ TenThousandths(resp[c].body.exchange_rate) = 10^4
            /\ resp[c].body.exchange_rate = FromDecimal(1, 1)

C4_Witness ==
    \E c \in Clients :
        /\ Converted(c, Dec(10999, 3), USD, USD)
        /\ Thousandths(resp[c].body.converted_amount) = 10999
        /\ Cents(resp[c].body.converted_amount) = 1100

----------------------------------------------------------------------------
\* C5 as written: a conversion between two distinct supported codes
\* returns amount / rate(a) * rate(b) rounded to two decimals, ties to
\* even.
C5_RoundedHalfEven ==
    \A c \in Clients :
        (/\ Succeeded(c)
         /\ first[c] = None
         /\ CodeOf(req[c].from_currency) # CodeOf(req[c].to_currency)) =>
            resp[c].body.converted_amount =
                FromDecimal(HalfEven(ExactCents(req[c].amount,
                                                CodeOf(req[c].from_currency),
                                                CodeOf(req[c].to_currency))),
                            100)

\* C5 as amended: a conversion between two distinct supported codes
\* returns a cent nearest to amount / rate(a) * rate(b).  When that
\* quotient lies halfway between two cents, the cent is decided by the
\* binary floating-point product: 0.02 USD gives 0.03 CAD (not the even
\* 0.02), while 0.5 USD, whose product 0.625 is exact in binary, gives
\* 0.62 CAD.  100 USD gives 85.0 EUR, 100 EUR gives 117.65 USD and 0 JPY
\* gives 0.0 GBP.
C5_NearestCent ==
    \A c \in Clients :
        /\ (/\ Succeeded(c)
            /\ first[c] = None
            /\ CodeOf(req[c].from_currency) # CodeOf(req[c].to_currency)) =>
               /\ Nearest(Cents(resp[c].body.converted_amount),
                          ExactCents(req[c].amount,
                                     CodeOf(req[c].from_currency),
                                     CodeOf(req[c].to_currency)))
               /\ resp[c].body.converted_amount =
                      FromDecimal(Cents(resp[c].body.converted_amount), 100)
        /\ Converted(c, Dec(100, 0), USD, EUR) =>
               resp[c].body.converted_amount = FromDecimal(8500, 100)
        /\ Converted(c, Dec(100, 0), EUR, USD) =>
               resp[c].body.converted_amount = FromDecimal(11765, 100)
        /\ Converted(c, Dec(0, 2), JPY, GBP) =>
               resp[c].body.converted_amount = FromDecimal(0, 100)
        /\ Converted(c, Dec(2, 2), USD, CAD) =>
               resp[c].body.converted_amount = FromDecimal(3, 100)
        /\ Converted(c, Dec(5, 1), USD, CAD) =>
               resp[c].body.converted_amount = FromDecimal(62, 100)

\* 0.02 USD is 0.025 CAD, halfway between two cents, and comes out 0.03.
C5_Witness ==
    \E c \in Clients :
        /\ Converted(c, Dec(2, 2), USD, CAD)
        /\ ExactCents(req[c].amount, USD, CAD) = [q |-> 2, r |-> 50, den |-> 100]
        /\ Cents(resp[c].body.converted_amount) = 3

----------------------------------------------------------------------------
\* C6: the exchange rate of a successful conversion from a to b is
\* rate(b) / rate(a) rounded to four decimals, whatever the amount
\* (0.85 for USD to EUR, 1.1765 for EUR to USD), and the rates of the two
\* directions multiply to 1 within the tolerance the two roundings leave:
\* |r(a,b) * r(b,a) - 1| <= 0.00005 * (r(a,b) + r(b,a)) + 0.0000000025.
C6_ExchangeRateDisplay ==
    \A c \in Clients :
        Succeeded(c) =>
            LET f  == CodeOf(req[c].from_currency)
                t  == CodeOf(req[c].to_currency)
                r2 == TenThousandths(resp[c].body.exchange_rate)
                r1 == TenThousandths(first[c].resp.body.exchange_rate)
            IN  /\ Nearest(r2, ExactRate(f, t))
                /\ 2 * ExactRate(f, t).r # ExactRate(f, t).den
                /\ resp[c].body.exchange_rate = FromDecimal(r2, 10^4)
                /\ (f = USD /\ t = EUR) => r2 = 8500
                /\ (f = EUR /\ t = USD) => r2 = 11765
                /\ first[c] # None =>
                       4 * Abs(r1 * r2 - 10^8) <= 2 * r1 + 2 * r2 + 1

\* JPY to GBP shows 0.0066 and GBP to JPY 150.6849: the product is 0.9945.
C6_Witness ==
    \E c \in Clients :
        /\ Succeeded(c)
        /\ first[c] # None
        /\ req[c].from_currency = GBP
        /\ req[c].to_currency = JPY
        /\ TenThousandths(first[c].resp.body.exchange_rate) = 66
        /\ TenThousandths(resp[c].body.exchange_rate) = 1506849

----------------------------------------------------------------------------
\* C7: two conversion requests that differ only in the letter case of
\* their codes get the same response; a request with a non-negative
\* amount and supported codes in any letter case succeeds, its response
\* gives the codes in capitals, and it returns the amount itself when the
\* two codes are the same code in different letter cases.
C7_CaseInsensitiveCodes ==
    /\ \A c, d \in Clients :
           (/\ Answered(c)
            /\ Answered(d)
            /\ req[c].amount = req[d].amount
            /\ SameLetters(req[c].from_currency, req[d].from_currency)
            /\ SameLetters(req[c].to_currency, req[d].to_currency)) =>
               resp[c] = resp[d]
    /\ \A c \in Clients :
           (Answered(c) /\ req[c].amount.n >= 0 /\ BothSupported(c)) =>
               /\ resp[c].status_code = 200
               /\ resp[c].body.from_currency = CodeOf(req[c].from_currency)
               /\ resp[c].body.to_currency = CodeOf(req[c].to_currency)
               /\ CodeOf(req[c].from_currency) = CodeOf(req[c].to_currency) =>
                      Thousandths(resp[c].body.converted_amount)
                          = WireThousandths(req[c].amount)

\* 100 from USD to EUR and 100 from usd to Eur, both answered; and 0.02
\* from usd to USD answered.
C7_Witness ==
    \E c, d \in Clients :
        /\ Succeeded(c)
        /\ Succeeded(d)
        /\ req[c].from_currency = USD
        /\ req[c].to_currency = EUR
        /\ req[d].from_currency = << "u", "s", "d" >>
        /\ req[d].to_currency = << "E", "u", "r" >>
        /\ resp[c] = resp[d]
        /\ Cents(resp[d].body.converted_amount) = 8500

----------------------------------------------------------------------------
\* C8: in every reachable state the rate table has exactly the eight
\* supported codes, every rate is strictly positive, USD is 1.0, and each
\* entry is the float of the document's value.
C8_RateTableFixed ==
    /\ DOMAIN EXCHANGE_RATES = DocCodes
    /\ \A code \in DocCodes :
           /\ ~EXCHANGE_RATES[code].neg
           /\ EXCHANGE_RATES[code].m # << >>
           /\ TenThousandths(EXCHANGE_RATES[code]) = 100 * DocRate[code]
           /\ EXCHANGE_RATES[code] = FromDecimal(DocRate[code], 100)
    /\ EXCHANGE_RATES[USD] = FromDecimal(1, 1)

\* One caller holds a rejection and another a conversion.
C8_Witness ==
    \E c, d \in Clients :
        /\ Rejected(c)
        /\ Succeeded(d)
        /\ req[d].from_currency # req[d].to_currency

----------------------------------------------------------------------------
\* What a conversion request gets when it is the only one served, from the
\* table as imported.
Alone(r) ==
    LET v == ConvertRequest(r)
    IN  IF v.ok THEN convert_endpoint(v.payload, InitialRates) ELSE v.response

\* C9: in any interleaving, a step taken for one request leaves the rate
\* table and every other caller's request, payload and response as they
\* were, and a request is answered as it would be were it served alone:
\* two requests that are equal are answered equally.
C9_NoInterference ==
    [][/\ EXCHANGE_RATES' = EXCHANGE_RATES
       /\ \E c \in Clients :
              \A d \in Clients \ {c} :
                  /\ pc'[d] = pc[d]
                  /\ req'[d] = req[d]
                  /\ payload'[d] = payload[d]
                  /\ resp'[d] = resp[d]
       /\ \A c \in Clients :
              (pc[c] # "done" /\ pc'[c] = "done" /\ req'[c].kind = "convert") =>
                  /\ resp'[c] = Alone(req'[c])
                  /\ \A d \in Clients :
                         (pc'[d] = "done" /\ req'[d] = req'[c]) =>
                             resp'[d] = resp'[c]]_vars

\* Two different requests in flight at once: one answered while the other
\* waits between validation and the endpoint.
C9_Witness ==
    \E c, d \in Clients :
        /\ pc[c] = "validated"
        /\ Succeeded(d)
        /\ req[c] # req[d]

----------------------------------------------------------------------------
\* C10: every answer to GET /health has status 200, status "healthy",
\* service "engine-service" and a timestamp, whatever conversions were
\* answered or rejected meanwhile, and a pending health check can always
\* be answered.
C10_HealthFixedPayload ==
    \A c \in Clients :
        /\ (pc[c] = "done" /\ req[c].kind = "health") =>
               /\ resp[c].status_code = 200
               /\ resp[c].body.status = "healthy"
               /\ resp[c].body.service = "engine-service"
               /\ DOMAIN resp[c].body = {"status", "service", "timestamp"}
        /\ (pc[c] = "sent" /\ req[c].kind = "health") => ENABLED Health(c)

\* A health check answered beside a rejected conversion.
C10_Witness ==
    \E c, d \in Clients :
        /\ pc[c] = "done"
        /\ req[c].kind = "health"
        /\ resp[c].status_code = 200
        /\ Rejected(d)
        /\ resp[d].status_code = 422
====
